---- MODULE Spec2Model ----
(***************************************************************************)
(* Model of portmatching-benchmarking:                                     *)
(*   src/src/datasets.rs           UnsavedFile, QasmAndJson, Dataset       *)
(*   src/src/utils/qasm_conversion.rs   qasm_to_json, json_to_qasm         *)
(*   src/src/datasets/random.rs    RandomDataset::unpack, random_circuit   *)
(*   src/src/main.rs               run_quartz, run_portmatching, save_csv  *)
(*                                                                         *)
(* Spec      one QasmAndJson record, its two UnsavedFiles and the two      *)
(*           paths on disk, driven by any sequence of the methods.         *)
(* SpecGen   Dataset::generate over a directory of records, iter_qasm and  *)
(*           iter_json, and a second generate(true) on the same folder.    *)
(* SpecRand  RandomDataset::unpack for any parameters and any draws.       *)
(* SpecBench one run of run_quartz or run_portmatching over a corpus, and  *)
(*           the save_csv call on the samples it returns.                  *)
(*                                                                         *)
(* Modelling assumptions (environment):                                    *)
(*   - fs::read_to_string succeeds on a path that exists;                  *)
(*   - fs::write / File::create may fail, leaving the path untouched or    *)
(*     truncated;                                                          *)
(*   - the converter subprocess may fail to spawn, may print bytes that    *)
(*     are not UTF-8, may exit unsuccessfully printing nothing, or may     *)
(*     succeed; nothing but this module's code changes the directory;      *)
(*   - Uuid::new_v4 names never collide; the rng can give any draw;        *)
(*   - a match call (find_matches, pattern_match) can fail; the other      *)
(*     native calls return.                                                *)
(***************************************************************************)
EXTENDS Integers, Sequences, FiniteSets, Bags, TLC

\* ---------------------------------------------------------------- bounds
\* circuits 1..NumCircs; circuit 1 is the one the files on disk describe
NumCircs == 2

\* RandomDataset parameters: n_qubits, n_gates and n_circuits range over
\* 0..MaxQubits, 0..MaxGates and 0..MaxCircuits
MaxQubits == 3
MaxGates == 2
MaxCircuits == 2

\* the rejected draws that are counted (the count stops there)
MaxRejected == 2

\* a corpus blob holds up to 100 * MaxHundreds + 99 patterns
MaxHundreds == 101

\* ----------------------------------------------------------------- texts
\* Option<T>: None is <<>>, Some(t) is <<t>>
None == <<>>
Some(t) == <<t>>

\* A text is <<format, circuit>>; circuit 0 is text that is not a circuit.
Circs == 1 .. NumCircs
EmptyText == <<"none", 0>>
Text(fmt, c) == <<fmt, c>>
Fmt(t) == t[1]
Circ(t) == t[2]

\* The corpus directory holds at most one basename per circuit; the files of
\* basename b are the paths <<b, "qasm">> and <<b, "json">>.
Bases == Circs
Exts == {"qasm", "json"}

\* qasm.bin and json.bin have the extension "bin" and the stems "qasm" and
\* "json"; as stems they are the numbers 0 and -1, which no circuit file has.
BlobStem(w) == IF w = "qasm" THEN 0 ELSE -1
Stems == Bases \cup {BlobStem("qasm"), BlobStem("json")}
Paths == Stems \X Exts

\* ------------------------------------------------------------ UnsavedFile
UnsavedFile_new(path) == [path |-> path, contents |-> None, is_saved |-> FALSE]

exists(f, d) == d[f.path] # None

is_empty_ignores_disk(f, d) == f.contents = None

is_empty(f, d) == f.contents = None /\ ~exists(f, d)

\* outcomes of fs::write: written; failed before touching the path;
\* failed after the path was created/truncated
WriteOutcomes == {"ok", "fail", "fail_trunc"}

fs_write(d, path, t, w) ==
    CASE w = "ok"         -> [d EXCEPT ![path] = Some(t)]
      [] w = "fail"       -> d
      [] w = "fail_trunc" -> [d EXCEPT ![path] = Some(EmptyText)]

\* UnsavedFile::save; result: the file, the disk, Ok/Err, the paths written
save_never_marks(f, d, w) ==
    IF f.is_saved \/ f.contents = None
    THEN [file |-> f, disk |-> d, ok |-> TRUE, writes |-> <<>>]
    ELSE [file   |-> f,
          disk   |-> fs_write(d, f.path, f.contents[1], w),
          ok     |-> (w = "ok"),
          writes |-> <<f.path>>]

save(f, d, w) ==
    IF f.is_saved
    THEN [file |-> f, disk |-> d, ok |-> TRUE, writes |-> <<>>]
    ELSE IF f.contents = None
    THEN [file |-> f, disk |-> d, ok |-> TRUE, writes |-> <<>>]
    ELSE [file   |-> [f EXCEPT !.is_saved = TRUE],
          disk   |-> fs_write(d, f.path, f.contents[1], w),
          ok     |-> (w = "ok"),
          writes |-> <<f.path>>]

\* UnsavedFile::load; result: the file, Ok(contents)/Err, the paths read.
\* read_to_string on a missing path is an Err that `?` returns at once.
load_empty_marks_saved(f, d) ==
    IF ~is_empty(f, d)
    THEN IF exists(f, d)
         THEN [file  |-> [f EXCEPT !.contents = d[f.path], !.is_saved = TRUE],
               ok    |-> TRUE, val |-> d[f.path], reads |-> <<f.path>>, err |-> ""]
         ELSE [file |-> f, ok |-> FALSE, val |-> None, reads |-> <<f.path>>,
               err |-> "NotFound"]
    ELSE [file |-> [f EXCEPT !.is_saved = TRUE],
          ok |-> FALSE, val |-> None, reads |-> <<>>, err |-> "NotFound"]

load(f, d) ==
    IF ~is_empty(f, d)
    THEN IF exists(f, d)
         THEN [file  |-> [f EXCEPT !.contents = d[f.path], !.is_saved = TRUE],
               ok    |-> TRUE, val |-> d[f.path], reads |-> <<f.path>>, err |-> ""]
         ELSE [file |-> f, ok |-> FALSE, val |-> None, reads |-> <<f.path>>,
               err |-> "NotFound"]
    ELSE [file |-> f, ok |-> (f.contents # None), val |-> f.contents,
          reads |-> <<>>, err |-> IF f.contents # None THEN "" ELSE "NotFound"]

set_contents_marks_saved(f, t) == [f EXCEPT !.contents = Some(t), !.is_saved = TRUE]

set_contents(f, t) == [f EXCEPT !.contents = Some(t), !.is_saved = FALSE]

\* -------------------------------------------------------------- converter
\* outcomes of Command::output() followed by String::from_utf8(stdout)
ConvOutcomes == {"ok", "exit_fail", "spawn_fail", "bad_utf8"}

\* what the script prints for an input, when it runs to the end
converted(from, to, t) ==
    IF Fmt(t) = from /\ Circ(t) # 0 THEN Text(to, Circ(t)) ELSE EmptyText

\* io::Result<String>: the exit status is not looked at
convert(from, to, t, c) ==
    CASE c = "spawn_fail" -> [ok |-> FALSE, val |-> None, err |-> "Spawn"]
      [] c = "bad_utf8"   -> [ok |-> FALSE, val |-> None, err |-> "Other"]
      [] c = "exit_fail"  -> [ok |-> TRUE,  val |-> Some(EmptyText), err |-> ""]
      [] c = "ok"         -> [ok |-> TRUE,  val |-> Some(converted(from, to, t)),
                              err |-> ""]

qasm_to_json(t, c) == convert("qasm", "json", t, c)

json_to_qasm(t, c) == convert("json", "qasm", t, c)

\* ------------------------------------------------------------ QasmAndJson
from_path(b) == [qasm |-> UnsavedFile_new(<<b, "qasm">>),
                 json |-> UnsavedFile_new(<<b, "json">>)]

needs_conversion(r, d) == is_empty(r.qasm, d) \/ is_empty(r.json, d)

\* a converter call as seen from outside: the function, its argument, how
\* the subprocess ended and what the function returned
Call(fn, t, c, ret) == [fn |-> fn, arg |-> t, outcome |-> c, ret |-> ret]

\* QasmAndJson::load; c is the outcome of the converter call, if one is made.
\* result: the record, Ok/Err, the converter calls made, the paths read
QasmAndJson_load(r, d, c) ==
    IF is_empty(r.qasm, d)
    THEN LET jl == load(r.json, d) IN
         IF ~jl.ok
         THEN [rec |-> [r EXCEPT !.json = jl.file], ok |-> FALSE,
               err |-> jl.err, conv |-> <<>>, reads |-> jl.reads]
         ELSE LET cv == json_to_qasm(jl.val[1], c) IN
              [rec   |-> [qasm |-> IF cv.ok THEN set_contents(r.qasm, cv.val[1])
                                   ELSE r.qasm,
                          json |-> jl.file],
               ok    |-> cv.ok,
               err   |-> cv.err,
               conv  |-> <<Call("json_to_qasm", jl.val[1], c, cv)>>,
               reads |-> jl.reads]
    ELSE IF is_empty(r.json, d)
    THEN LET ql == load(r.qasm, d) IN
         IF ~ql.ok
         THEN [rec |-> [r EXCEPT !.qasm = ql.file], ok |-> FALSE,
               err |-> ql.err, conv |-> <<>>, reads |-> ql.reads]
         ELSE LET cv == qasm_to_json(ql.val[1], c) IN
              [rec   |-> [qasm |-> ql.file,
                          json |-> IF cv.ok THEN set_contents(r.json, cv.val[1])
                                   ELSE r.json],
               ok    |-> cv.ok,
               err   |-> cv.err,
               conv  |-> <<Call("qasm_to_json", ql.val[1], c, cv)>>,
               reads |-> ql.reads]
    ELSE LET jl == load(r.json, d) IN
         IF ~jl.ok
         THEN [rec |-> [r EXCEPT !.json = jl.file], ok |-> FALSE,
               err |-> jl.err, conv |-> <<>>, reads |-> jl.reads]
         ELSE LET ql == load(r.qasm, d) IN
              [rec   |-> [qasm |-> ql.file, json |-> jl.file],
               ok    |-> ql.ok,
               err   |-> ql.err,
               conv  |-> <<>>,
               reads |-> jl.reads \o ql.reads]

\* QasmAndJson::save: qasm.save()?; json.save()
QasmAndJson_save(r, d, wq, wj) ==
    LET qs == save(r.qasm, d, wq) IN
    IF ~qs.ok
    THEN [rec |-> [r EXCEPT !.qasm = qs.file], disk |-> qs.disk, ok |-> FALSE,
          writes |-> qs.writes]
    ELSE LET js == save(r.json, qs.disk, wj) IN
         [rec |-> [qasm |-> qs.file, json |-> js.file], disk |-> js.disk,
          ok |-> js.ok, writes |-> qs.writes \o js.writes]

\* load_tk1_json_str: Ok only for the JSON text of a circuit
load_tk1_json_str(t) == Fmt(t) = "json" /\ Circ(t) # 0

\* QasmAndJson::valid_pattern; pt is the set of circuits that
\* CircuitPattern::try_from_circuit accepts.  "panic" is the unwrap() of a
\* failed parse.
valid_pattern_accepts_parsed(r, pt) ==
    IF r.json.contents = None THEN "false"
    ELSE IF ~load_tk1_json_str(r.json.contents[1]) THEN "panic"
    ELSE "true"

valid_pattern(r, pt) ==
    IF r.json.contents = None THEN "false"
    ELSE IF ~load_tk1_json_str(r.json.contents[1]) THEN "panic"
    ELSE IF Circ(r.json.contents[1]) \in pt THEN "true" ELSE "false"

\* --------------------------------------------------------------- corpus blobs
\* rmp_serde writes a Vec<String> as an array header carrying the length,
\* followed by the strings, each with its own length prefix.  A blob file is
\* the sequence of these items; File::create leaves it with no item at all.
ArrayHeader(n) == [tag |-> "array", len |-> n, str |-> EmptyText]
StrItem(t) == [tag |-> "str", len |-> 1, str |-> t]

encode_write(v) == <<ArrayHeader(Len(v))>> \o [k \in 1 .. Len(v) |-> StrItem(v[k])]

\* rmp_serde::decode::from_read: Err unless the file is a whole array
decodable(bytes) ==
    /\ Len(bytes) >= 1
    /\ bytes[1].tag = "array"
    /\ bytes[1].len = Len(bytes) - 1
    /\ \A k \in 2 .. Len(bytes) : bytes[k].tag = "str"

from_read(bytes) == [k \in 1 .. Len(bytes) - 1 |-> bytes[k + 1].str]

Blobs == {"qasm", "json"}

\* ---------------------------------------------------------------- generate
\* files of the folder that are neither circuit files nor blobs
OtherEntries == {<<1, "txt">>, <<1, "">>}

\* folder.read_dir(): the circuit files, the blobs that exist, the rest
read_dir(d, b) ==
    {p \in Paths : d[p] # None}
        \cup {<<BlobStem(w), "bin">> : w \in {x \in Blobs : b[x] # None}}
        \cup OtherEntries

file_names_any_extension(d, b) == {p[1] : p \in read_dir(d, b)}

\* file_names: the paths with extension json or qasm, the extension removed
file_names(d, b) ==
    {p[1] : p \in {q \in read_dir(d, b) : q[2] = "json" \/ q[2] = "qasm"}}

Orders_with_repeats(names) ==
    UNION {[1 .. n -> names] : n \in Cardinality(names) .. Cardinality(names) + 1}

\* the orders in which a HashSet of basenames can be iterated
Orders(names) ==
    {o \in [1 .. Cardinality(names) -> names] :
        \A x, y \in 1 .. Cardinality(names) : x # y => o[x] # o[y]}

RECURSIVE retained_json_unfiltered(_, _, _)
retained_json_unfiltered(fs, pt, k) ==
    IF k = 0 THEN [qasm |-> <<>>, json |-> <<>>, panic |-> FALSE]
    ELSE LET r == retained_json_unfiltered(fs, pt, k - 1)
             v == valid_pattern(fs[k], pt) IN
         IF r.panic \/ v = "panic" THEN [r EXCEPT !.panic = TRUE]
         ELSE IF v = "false" THEN [r EXCEPT !.json = Append(r.json, fs[k].json.contents[1])]
         ELSE IF fs[k].qasm.contents = None THEN [r EXCEPT !.panic = TRUE]
         ELSE [qasm  |-> Append(r.qasm, fs[k].qasm.contents[1]),
               json  |-> Append(r.json, fs[k].json.contents[1]),
               panic |-> FALSE]

\* files.into_iter().filter(valid_pattern).map(contents.unwrap()).unzip():
\* the result so far and whether an unwrap() panicked
RECURSIVE retained(_, _, _)
retained(fs, pt, k) ==
    IF k = 0 THEN [qasm |-> <<>>, json |-> <<>>, panic |-> FALSE]
    ELSE LET r == retained(fs, pt, k - 1)
             v == valid_pattern(fs[k], pt) IN
         IF r.panic \/ v = "panic" THEN [r EXCEPT !.panic = TRUE]
         ELSE IF v = "false" THEN r
         ELSE IF fs[k].qasm.contents = None THEN [r EXCEPT !.panic = TRUE]
         ELSE [qasm  |-> Append(r.qasm, fs[k].qasm.contents[1]),
               json  |-> Append(r.json, fs[k].json.contents[1]),
               panic |-> FALSE]

\* ------------------------------------------------------------------ state
VARIABLES
    disk,      \* the circuit files of the directory: path -> Option<text>
    pat,       \* the circuits CircuitPattern::try_from_circuit accepts
    record,    \* Spec: the QasmAndJson under test
    last,      \* Spec: the last method call, what it returned and what it did
    bin,       \* qasm.bin and json.bin: Option<items of the file>
    save_files,\* generate's argument
    files,     \* generate: Vec<QasmAndJson>
    pc,        \* generate: where the call is
    idx,       \* generate: the record the load loop is at
    qasm_vec,  \* generate: the Vec `qasm` of retained texts
    json_vec,  \* generate: the Vec `json` of retained texts
    ret,       \* generate: the returned count
    prev_ret,  \* the count an earlier generate(true) on this folder returned
    bin0,      \* qasm.bin and json.bin as they were when generate was called
    iter_res,  \* the last iter_qasm / iter_json call since generate was called:
               \* which blob, where generate was, Ok or panic, the items
    n_qubits,  \* RandomDataset: qubits of each circuit
    n_gates,   \* RandomDataset: gates of each circuit
    n_circuits,\* RandomDataset: circuits to write
    upc,       \* unpack: where the call is
    seen_circs,\* unpack: the texts accepted so far
    n_circs,   \* unpack: files written and counted
    n_iter,    \* unpack: the attempts the loop has counted
    n_rejected,\* the draws random_circuit answered None to, up to MaxRejected
    folder,    \* the files unpack has created in circuit_folder: a bag of texts
    engine,    \* the benchmark run: "quartz" (run_quartz) or "portmatching"
    bpc,       \* the benchmark run: where the call is
    handles,   \* run_quartz: graph, ops, xfers: "null", "live" or "freed"
    n_patterns,\* all_patterns.len() / n_xfers: the patterns loaded from the blob
    size_pos,  \* the place in bench_sizes of the size n the loop is at
    matcher,   \* run_portmatching: the prefix length `matcher` was built from
    start_time,\* None, or Some(the driver steps taken since Instant::now())
    bench_results, \* the samples pushed: the size n and the steps its time spans
    csv_file   \* save_csv: the lines of <bench_type>/<dataset>.csv, None without it

recVars == <<record, last>>
randVars == <<n_qubits, n_gates, n_circuits, upc, seen_circs, n_circs, n_iter,
              n_rejected, folder>>
benchVars == <<engine, bpc, handles, n_patterns, size_pos, matcher, start_time,
               bench_results, csv_file>>
genVars == <<bin, save_files, files, pc, idx, qasm_vec, json_vec, ret, prev_ret,
             bin0, iter_res>>
vars == <<disk, pat, record, last, bin, save_files, files, pc, idx, qasm_vec,
          json_vec, ret, prev_ret, bin0, iter_res, randVars, benchVars>>

\* what a file of basename b can hold before the program runs
InitialTexts(b, ext) ==
    IF b \notin Bases THEN {None}
    ELSE IF ext = "qasm" THEN {None, Some(Text("qasm", b))}
    ELSE {None, Some(Text("json", b)), Some(EmptyText)}

\* the folders in which the basenames bs may have files, nothing else has
FilesOf(bs, ext) ==
    {f \in [bs -> UNION {InitialTexts(b, ext) : b \in bs}] :
        \A b \in bs : f[b] \in InitialTexts(b, ext)}

InitialDisks(bs) ==
    {[p \in Paths |-> IF p[1] \notin bs THEN None
                      ELSE IF p[2] = "qasm" THEN q[p[1]] ELSE j[p[1]]] :
        q \in FilesOf(bs, "qasm"), j \in FilesOf(bs, "json")}

Observed(op, file, ok, err, val, conv, reads, writes) ==
    [op |-> op, file |-> file, ok |-> ok, err |-> err, val |-> val, conv |-> conv,
     reads |-> reads, writes |-> writes,
     pre |-> [record |-> record, disk |-> disk]]

NoCall(d) ==
    [op |-> "from_path", file |-> "", ok |-> TRUE, err |-> "", val |-> None,
     conv |-> <<>>, reads |-> <<>>, writes |-> <<>>,
     pre |-> [record |-> from_path(1), disk |-> d]]

NoIter == [which |-> "", at |-> "", ok |-> TRUE, items |-> <<>>]

\* ------------------------------------------------------------------- Spec
\* the record of basename 1, freshly built by from_path; nothing else on disk
\* the variables of the benchmark run in the specifications without one
NoBench ==
    /\ engine = "none"
    /\ bpc = "off"
    /\ handles = [h \in {"graph", "ops", "xfers"} |-> "null"]
    /\ n_patterns = 0
    /\ size_pos = 0
    /\ matcher = 0
    /\ start_time = None
    /\ bench_results = <<>>
    /\ csv_file = None

\* the variables of unpack in the specifications that do not call it
NoUnpack ==
    /\ n_qubits = 0
    /\ n_gates = 0
    /\ n_circuits = 0
    /\ upc = "off"
    /\ seen_circs = {}
    /\ n_circs = 0
    /\ n_iter = 0
    /\ n_rejected = 0
    /\ folder = EmptyBag

Init ==
    /\ NoUnpack
    /\ NoBench
    /\ disk \in InitialDisks({1})
    /\ pat \in SUBSET Circs
    /\ record = from_path(1)
    /\ last = NoCall(disk)
    /\ bin = [w \in Blobs |-> None]
    /\ save_files = FALSE
    /\ files = <<>>
    /\ pc = "idle"
    /\ idx = 0
    /\ qasm_vec = <<>>
    /\ json_vec = <<>>
    /\ ret = 0
    /\ prev_ret = None
    /\ bin0 = bin
    /\ iter_res = NoIter

File_set_contents ==
    \E e \in Exts, c \in Circs :
        /\ record' = [record EXCEPT ![e] = set_contents(@, Text(e, c))]
        /\ last' = Observed("set_contents", e, TRUE, "", Some(Text(e, c)), <<>>, <<>>, <<>>)
        /\ UNCHANGED <<disk, pat, genVars, randVars, benchVars>>

File_load ==
    \E e \in Exts :
        LET l == load(record[e], disk) IN
        /\ record' = [record EXCEPT ![e] = l.file]
        /\ last' = Observed("file_load", e, l.ok, l.err, l.val, <<>>, l.reads, <<>>)
        /\ UNCHANGED <<disk, pat, genVars, randVars, benchVars>>

File_save ==
    \E e \in Exts, w \in WriteOutcomes :
        LET s == save(record[e], disk, w) IN
        /\ record' = [record EXCEPT ![e] = s.file]
        /\ disk' = s.disk
        /\ last' = Observed("file_save", e, s.ok, IF s.ok THEN "" ELSE "Write", None, <<>>, <<>>, s.writes)
        /\ UNCHANGED <<pat, genVars, randVars, benchVars>>

Record_load ==
    \E c \in ConvOutcomes :
        LET l == QasmAndJson_load(record, disk, c) IN
        /\ record' = l.rec
        /\ last' = Observed("load", "", l.ok, l.err, None, l.conv, l.reads, <<>>)
        /\ UNCHANGED <<disk, pat, genVars, randVars, benchVars>>

Record_save ==
    \E wq \in WriteOutcomes, wj \in WriteOutcomes :
        LET s == QasmAndJson_save(record, disk, wq, wj) IN
        /\ record' = s.rec
        /\ disk' = s.disk
        /\ last' = Observed("save", "", s.ok, IF s.ok THEN "" ELSE "Write", None, <<>>, <<>>, s.writes)
        /\ UNCHANGED <<pat, genVars, randVars, benchVars>>

Record_valid_pattern ==
    /\ last' = Observed("valid_pattern", "", valid_pattern(record, pat) # "panic",
                        "", Some(valid_pattern(record, pat)), <<>>, <<>>, <<>>)
    /\ UNCHANGED <<disk, pat, record, genVars, randVars, benchVars>>

Next ==
    \/ File_set_contents
    \/ File_load
    \/ File_save
    \/ Record_load
    \/ Record_save
    \/ Record_valid_pattern

Spec == Init /\ [][Next]_vars

TypeOK ==
    /\ \A e \in Exts : record[e].is_saved \in BOOLEAN /\ Len(record[e].contents) <= 1
    /\ pat \subseteq Circs

\* ---------------------------------------------------------------- SpecGen
\* blobs a previous run left behind
StaleBlobs == [w \in Blobs |-> Some(encode_write(<<Text(w, 1)>>))]

\* a folder holding any of the files, before generate(save_files) is called
InitGen ==
    /\ NoUnpack
    /\ NoBench
    /\ disk \in InitialDisks(Bases)
    /\ pat \in SUBSET Circs
    /\ record = from_path(1)
    /\ last = NoCall([p \in Paths |-> None])
    /\ bin \in {[w \in Blobs |-> None], StaleBlobs}
    /\ save_files \in BOOLEAN
    /\ files = <<>>
    /\ pc = "start"
    /\ idx = 0
    /\ qasm_vec = <<>>
    /\ json_vec = <<>>
    /\ ret = 0
    /\ prev_ret = None
    /\ bin0 = bin
    /\ iter_res = NoIter

\* where an expect() / unwrap() of generate can abort the call
Panics == {"panic_load", "panic_save", "panic_filter", "panic_create", "panic_write"}

G_scan_creates_blobs ==
    /\ pc = "start"
    /\ \E o \in Orders(file_names(disk, bin)) :
          files' = [k \in 1 .. Len(o) |-> from_path(o[k])]
    /\ idx' = 1
    /\ pc' = "load"
    /\ iter_res' = NoIter
    /\ bin0' = bin
    /\ bin' = [w \in Blobs |-> Some(<<>>)]
    /\ UNCHANGED <<randVars, benchVars, disk, pat, recVars, save_files,
                   qasm_vec, json_vec, ret, prev_ret>>

\* read_dir, filter on the extension, collect into the HashSet, build the Vec
G_scan ==
    /\ pc = "start"
    /\ \E o \in Orders(file_names(disk, bin)) :
          files' = [k \in 1 .. Len(o) |-> from_path(o[k])]
    /\ idx' = 1
    /\ pc' = "load"
    /\ iter_res' = NoIter
    /\ bin0' = bin
    /\ UNCHANGED <<randVars, benchVars, disk, pat, recVars, bin, save_files,
                   qasm_vec, json_vec, ret, prev_ret>>

G_load_always_saves ==
    /\ pc = "load"
    /\ idx <= Len(files)
    /\ \E c \in ConvOutcomes, wq \in WriteOutcomes, wj \in WriteOutcomes :
          LET l == QasmAndJson_load(files[idx], disk, c)
              s == QasmAndJson_save(l.rec, disk, wq, wj) IN
          IF ~l.ok
          THEN /\ files' = [files EXCEPT ![idx] = l.rec]
               /\ pc' = "panic_load"
               /\ UNCHANGED <<disk, idx>>
          ELSE /\ files' = [files EXCEPT ![idx] = s.rec]
               /\ disk' = s.disk
               /\ IF s.ok THEN idx' = idx + 1 /\ pc' = pc
                          ELSE idx' = idx /\ pc' = "panic_save"
    /\ UNCHANGED <<randVars, benchVars, pat, recVars, bin, save_files, qasm_vec,
                   json_vec, ret, prev_ret, bin0, iter_res>>

\* one turn of `for file in files.iter_mut()`: load, then save if asked;
\* either expect() panics on Err
G_load ==
    /\ pc = "load"
    /\ idx <= Len(files)
    /\ \E c \in ConvOutcomes :
          LET l == QasmAndJson_load(files[idx], disk, c) IN
          IF ~l.ok
          THEN /\ files' = [files EXCEPT ![idx] = l.rec]
               /\ pc' = "panic_load"
               /\ UNCHANGED <<disk, idx>>
          ELSE IF ~save_files
          THEN /\ files' = [files EXCEPT ![idx] = l.rec]
               /\ idx' = idx + 1
               /\ UNCHANGED <<disk, pc>>
          ELSE \E wq \in WriteOutcomes, wj \in WriteOutcomes :
                  LET s == QasmAndJson_save(l.rec, disk, wq, wj) IN
                  /\ files' = [files EXCEPT ![idx] = s.rec]
                  /\ disk' = s.disk
                  /\ IF s.ok THEN idx' = idx + 1 /\ pc' = pc
                             ELSE idx' = idx /\ pc' = "panic_save"
    /\ UNCHANGED <<randVars, benchVars, pat, recVars, bin, save_files, qasm_vec,
                   json_vec, ret, prev_ret, bin0, iter_res>>

\* filter(valid_pattern), map, unzip
G_filter ==
    /\ pc = "load"
    /\ idx > Len(files)
    /\ LET r == retained(files, pat, Len(files)) IN
       IF r.panic
       THEN pc' = "panic_filter" /\ UNCHANGED <<qasm_vec, json_vec>>
       ELSE pc' = "create_qasm_bin" /\ qasm_vec' = r.qasm /\ json_vec' = r.json
    /\ UNCHANGED <<randVars, benchVars, disk, pat, recVars, bin, save_files,
                   files, idx, ret, prev_ret, bin0, iter_res>>

\* File::create(...).unwrap(): creates or truncates the blob
G_create(which, from, to) ==
    /\ pc = from
    /\ \E w \in {"ok", "fail"} :
          IF w = "ok"
          THEN bin' = [bin EXCEPT ![which] = Some(<<>>)] /\ pc' = to
          ELSE bin' = bin /\ pc' = "panic_create"
    /\ UNCHANGED <<randVars, benchVars, disk, pat, recVars, save_files, files,
                   idx, qasm_vec, json_vec, ret, prev_ret, bin0, iter_res>>

G_create_qasm_bin == G_create("qasm", "create_qasm_bin", "create_json_bin")

G_create_json_bin == G_create("json", "create_json_bin", "write_qasm_bin")

\* rmp_serde::encode::write(...).unwrap(); a failed write leaves the header
G_write(which, v, from, to) ==
    /\ pc = from
    /\ \E w \in {"ok", "fail"} :
          IF w = "ok"
          THEN bin' = [bin EXCEPT ![which] = Some(encode_write(v))] /\ pc' = to
          ELSE /\ bin' = [bin EXCEPT ![which] = Some(<<ArrayHeader(Len(v) + 1)>>)]
               /\ pc' = "panic_write"
    /\ UNCHANGED <<randVars, benchVars, disk, pat, recVars, save_files, files,
                   idx, qasm_vec, json_vec, ret, prev_ret, bin0, iter_res>>

G_write_qasm_bin == G_write("qasm", qasm_vec, "write_qasm_bin", "write_json_bin")

G_write_json_bin == G_write("json", json_vec, "write_json_bin", "return")

\* qasm.len()
G_return ==
    /\ pc = "return"
    /\ ret' = Len(qasm_vec)
    /\ pc' = "done"
    /\ UNCHANGED <<randVars, benchVars, disk, pat, recVars, bin, save_files,
                   files, idx, qasm_vec, json_vec, prev_ret, bin0, iter_res>>

\* generate(true) called once more on the folder the first call left
G_again ==
    /\ pc = "done"
    /\ save_files
    /\ prev_ret = None
    /\ prev_ret' = Some(ret)
    /\ pc' = "start"
    /\ files' = <<>>
    /\ idx' = 0
    /\ qasm_vec' = <<>>
    /\ json_vec' = <<>>
    /\ ret' = 0
    /\ iter_res' = NoIter
    /\ UNCHANGED <<randVars, benchVars, disk, pat, recVars, bin, save_files,
                   bin0>>

Iter_regenerates(which) ==
    /\ pc \in {"start", "done"} \cup Panics
    /\ bin' = IF bin[which] = None THEN [bin EXCEPT ![which] = Some(encode_write(<<>>))]
                                   ELSE bin
    /\ iter_res' =
          IF bin[which] # None /\ ~decodable(bin[which][1])
          THEN [which |-> which, at |-> pc, ok |-> FALSE, items |-> <<>>]
          ELSE [which |-> which, at |-> pc, ok |-> TRUE,
                items |-> IF bin[which] = None THEN <<>> ELSE from_read(bin[which][1])]
    /\ UNCHANGED <<randVars, benchVars, disk, pat, recVars, save_files, files,
                   pc, idx, qasm_vec, json_vec, ret, prev_ret, bin0>>

\* iter_qasm / iter_json, called when generate is not running: File::open
\* and from_read, each unwrap()ped
Iter(which) ==
    /\ pc \in {"start", "done"} \cup Panics
    /\ iter_res' =
          IF bin[which] = None \/ ~decodable(bin[which][1])
          THEN [which |-> which, at |-> pc, ok |-> FALSE, items |-> <<>>]
          ELSE [which |-> which, at |-> pc, ok |-> TRUE,
                items |-> from_read(bin[which][1])]
    /\ UNCHANGED <<randVars, benchVars, disk, pat, recVars, bin, save_files,
                   files, pc, idx, qasm_vec, json_vec, ret, prev_ret, bin0>>

iter_qasm == Iter("qasm")

iter_json == Iter("json")

NextGen ==
    \/ G_scan
    \/ G_load
    \/ G_filter
    \/ G_create_qasm_bin
    \/ G_create_json_bin
    \/ G_write_qasm_bin
    \/ G_write_json_bin
    \/ G_return
    \/ G_again
    \/ iter_qasm
    \/ iter_json

SpecGen == InitGen /\ [][NextGen]_vars


\* ------------------------------------------- random circuits (random.rs)
QubitIds(q) == 0 .. q - 1

\* enum Gate: Cx(a, b), H(a), T(a), Invalid
Cx(a, b) == <<"Cx", a, b>>
H(a) == <<"H", a>>
T(a) == <<"T", a>>
Invalid == <<"Invalid">>

is_valid(g) ==
    IF g[1] = "Invalid" THEN FALSE
    ELSE IF g[1] = "Cx" THEN g[2] # g[3]
    ELSE TRUE

\* what one turn of Gate::random's loop can assign to g
gen_gate(q) ==
    {Cx(a, b) : a \in QubitIds(q), b \in QubitIds(q)}
        \cup {H(a) : a \in QubitIds(q)}
        \cup {T(a) : a \in QubitIds(q)}

\* Gate::random (after its assert): the gates the `while !g.is_valid()` loop
\* can end with
Gate_random(q) == {g \in gen_gate(q) : is_valid(g)}

\* the sequences `gates` can yield in one call of random_circuit
GateSeqs(q, n) == [1 .. n -> Gate_random(q)]

\* QuickUnionUf::<UnionBySize>::new(n_qubits)
QuickUnionUf_new(q) ==
    [parent |-> [i \in QubitIds(q) |-> i], size |-> [i \in QubitIds(q) |-> 1]]

RECURSIVE uf_find(_, _)
uf_find(uf, i) == IF uf.parent[i] = i THEN i ELSE uf_find(uf, uf.parent[i])

\* uf.union(a, b): the root of the smaller set is linked under the other
uf_union(uf, a, b) ==
    LET ra == uf_find(uf, a)
        rb == uf_find(uf, b)
        top == IF uf.size[ra] >= uf.size[rb] THEN ra ELSE rb
        sub == IF top = ra THEN rb ELSE ra IN
    IF ra = rb THEN uf
    ELSE [parent |-> [uf.parent EXCEPT ![sub] = top],
          size |-> [uf.size EXCEPT ![top] = uf.size[ra] + uf.size[rb]]]

\* the text format!() appends for one gate
gate_line(g) ==
    IF g[1] = "Cx" THEN <<"cx", g[2], g[3]>>
    ELSE IF g[1] = "H" THEN <<"h", g[2]>>
    ELSE <<"t", g[2]>>

\* the header of the text: ... qreg q[n_qubits];
qasm_header(q) == <<<<"qreg", q>>>>

\* `for g in gates`: union on cx, one line of text per gate
RECURSIVE for_gates(_, _, _, _)
for_gates(uf, qasm, gs, k) ==
    IF k > Len(gs) THEN [uf |-> uf, qasm |-> qasm]
    ELSE for_gates(IF gs[k][1] = "Cx" THEN uf_union(uf, gs[k][2], gs[k][3]) ELSE uf,
                   Append(qasm, gate_line(gs[k])), gs, k + 1)

\* (0..n_qubits).map(|i| uf.find(i)).all_equal()
all_equal(uf, q) == Cardinality({uf_find(uf, i) : i \in QubitIds(q)}) <= 1

assert_always_passes(q, n) == TRUE

\* assert!(n_qubits <= n_gates + 1)
assert_qubits(q, n) == q <= n + 1

random_circuit_unchecked(q, gs) ==
    Some(for_gates(QuickUnionUf_new(q), qasm_header(q), gs, 1).qasm)

\* random_circuit after its assert, for the gates the rng gave: Option<String>
random_circuit(q, gs) ==
    LET r == for_gates(QuickUnionUf_new(q), qasm_header(q), gs, 1) IN
    IF all_equal(r.uf, q) THEN Some(r.qasm) ELSE None

\* a file whose write failed part-way
TruncatedFile == <<>>

\* --------------------------------------------------- SpecRand: unpack
\* the variables of the specifications that do not read a circuit folder
NoFolder ==
    /\ disk = [p \in Paths |-> None]
    /\ pat = {}
    /\ record = from_path(1)
    /\ last = NoCall(disk)
    /\ bin = [w \in Blobs |-> None]
    /\ save_files = FALSE
    /\ files = <<>>
    /\ pc = "idle"
    /\ idx = 0
    /\ qasm_vec = <<>>
    /\ json_vec = <<>>
    /\ ret = 0
    /\ prev_ret = None
    /\ bin0 = bin
    /\ iter_res = NoIter

\* RandomDataset::new and the locals of unpack
InitRand ==
    /\ NoFolder
    /\ NoBench
    /\ n_qubits \in 0 .. MaxQubits
    /\ n_gates \in 0 .. MaxGates
    /\ n_circuits \in 0 .. MaxCircuits
    /\ upc = "start"
    /\ seen_circs = {}
    /\ n_circs = 0
    /\ n_iter = 0
    /\ n_rejected = 0
    /\ folder = EmptyBag

\* fs::create_dir_all(..).unwrap()
U_create_dir ==
    /\ upc = "start"
    /\ \E ok \in BOOLEAN : upc' = IF ok THEN "loop" ELSE "panic_dir"
    /\ UNCHANGED <<disk, pat, recVars, genVars, benchVars, n_qubits, n_gates, n_circuits,
                   seen_circs, n_circs, n_iter, n_rejected, folder>>

\* a turn of the loop in which random_circuit's assert fails
U_assert_fails ==
    /\ upc = "loop"
    /\ ~assert_qubits(n_qubits, n_gates)
    /\ upc' = "panic_assert"
    /\ UNCHANGED <<disk, pat, recVars, genVars, benchVars, n_qubits, n_gates, n_circuits,
                   seen_circs, n_circs, n_iter, n_rejected, folder>>

\* a turn of the loop in which Gate::random's assert!(n_qubits > 0) fails:
\* `gates` is lazy, so it is reached when the first gate is asked for
U_gate_assert_fails ==
    /\ upc = "loop"
    /\ assert_qubits(n_qubits, n_gates)
    /\ n_gates > 0
    /\ ~(n_qubits > 0)
    /\ upc' = "panic_gate"
    /\ UNCHANGED <<disk, pat, recVars, genVars, benchVars, n_qubits, n_gates, n_circuits,
                   seen_circs, n_circs, n_iter, n_rejected, folder>>

\* n_iter += 1; if n_iter > 10 * n_circuits { panic! }
count_iter ==
    /\ n_iter' = n_iter + 1
    /\ upc' = IF n_iter + 1 > 10 * n_circuits THEN "panic_budget" ELSE "loop"

\* a turn of the loop in which random_circuit returns None: `continue`
U_rejected ==
    /\ upc = "loop"
    /\ assert_qubits(n_qubits, n_gates)
    /\ n_gates = 0 \/ n_qubits > 0
    /\ \E gs \in GateSeqs(n_qubits, n_gates) :
          random_circuit(n_qubits, gs) = None
    /\ n_rejected' = IF n_rejected < MaxRejected THEN n_rejected + 1 ELSE n_rejected
    /\ UNCHANGED <<disk, pat, recVars, genVars, benchVars, n_qubits, n_gates, n_circuits, upc,
                   seen_circs, n_circs, n_iter, folder>>

\* the text was not in seen_circs: fs::write(path, qasm).unwrap() under a
\* fresh Uuid, n_circs += 1, break when n_circs == n_circuits
U_new_circuit(qasm, w) ==
    /\ qasm \notin seen_circs
    /\ seen_circs' = seen_circs \cup {qasm}
    /\ IF w # "ok"
       THEN /\ upc' = "panic_write"
            /\ folder' = IF w = "fail_trunc" THEN folder (+) SetToBag({TruncatedFile})
                                             ELSE folder
            /\ UNCHANGED <<n_circs, n_iter>>
       ELSE /\ folder' = folder (+) SetToBag({qasm})
            /\ n_circs' = n_circs + 1
            /\ IF n_circs + 1 = n_circuits
               THEN upc' = "returned" /\ n_iter' = n_iter
               ELSE count_iter

\* the text was in seen_circs already
U_duplicate(qasm) ==
    /\ qasm \in seen_circs
    /\ count_iter
    /\ UNCHANGED <<seen_circs, n_circs, folder>>

\* a turn of the loop in which random_circuit returns Some(qasm)
U_accepted ==
    /\ upc = "loop"
    /\ assert_qubits(n_qubits, n_gates)
    /\ n_gates = 0 \/ n_qubits > 0
    /\ \E gs \in GateSeqs(n_qubits, n_gates) :
          LET c == random_circuit(n_qubits, gs) IN
          /\ c # None
          /\ \/ \E w \in WriteOutcomes : U_new_circuit(c[1], w)
             \/ U_duplicate(c[1])
    /\ n_rejected' = n_rejected
    /\ UNCHANGED <<disk, pat, recVars, genVars, benchVars, n_qubits, n_gates, n_circuits>>

NextRand ==
    \/ U_create_dir
    \/ U_assert_fails
    \/ U_gate_assert_fails
    \/ U_rejected
    \/ U_accepted

SpecRand == InitRand /\ [][NextRand]_vars


\* ------------------------------------------ the benchmark runs (main.rs)
\* (200..=10000).step_by(200)
BenchFirst == 200
BenchLast == 10000
BenchStep == 200

bench_sizes ==
    [k \in 1 .. ((BenchLast - BenchFirst) \div BenchStep) + 1 |->
        BenchFirst + (k - 1) * BenchStep]

\* the lengths a corpus blob can have
CorpusCounts == {100 * h + d : h \in 0 .. MaxHundreds, d \in {0, 1, 99}}

size_filter_strict(n, len) == n < len

\* .filter(|&n| n <= all_patterns.len())  /  .filter(|&n| n <= n_xfers as usize)
size_filter(n, len) == n <= len

\* the place of the next size the filtered iterator yields after place k,
\* 0 when it is exhausted
filter_next(k, len) ==
    LET rest == {i \in k + 1 .. Len(bench_sizes) : size_filter(bench_sizes[i], len)} IN
    IF rest = {} THEN 0 ELSE CHOOSE i \in rest : \A j \in rest : i <= j

\* a driver step taken while start_time is set falls into the measured time
elapsed_with(step) ==
    IF start_time = None THEN None ELSE Some(Append(start_time[1], step))

\* writeln!(f, "size,duration")
CsvHeader == <<"size", "duration">>

\* duration.as_secs_f64(), as `{}` prints it: the seconds of the time as text
as_secs_f64(duration) == <<"secs", duration>>

BenchPanics ==
    {"panic_target", "panic_iter", "panic_cstring", "panic_json", "panic_pattern",
     "panic_hugr", "panic_match"}

\* the lines an earlier run can have left in the csv file
StaleCsv == <<CsvHeader, [size |-> BenchFirst, duration |-> as_secs_f64(<<>>)]>>

InitBench ==
    /\ NoFolder
    /\ NoUnpack
    /\ engine \in {"quartz", "portmatching"}
    /\ bpc = "start"
    /\ handles = [h \in {"graph", "ops", "xfers"} |-> "null"]
    /\ n_patterns = 0
    /\ size_pos = 0
    /\ matcher = 0
    /\ start_time = None
    /\ bench_results = <<>>
    /\ csv_file \in {None, Some(StaleCsv)}

\* `for n in bench_sizes.filter(..)`: the next size, or the end of the loop
next_size(e, done) ==
    /\ engine = e
    /\ bpc = "next"
    /\ LET k == filter_next(size_pos, n_patterns) IN
       IF k = 0
       THEN bpc' = done /\ size_pos' = size_pos
       ELSE bpc' = (IF e = "quartz" THEN "timer" ELSE "build") /\ size_pos' = k
    /\ start_time' = elapsed_with("next")
    /\ UNCHANGED <<disk, pat, recVars, genVars, randVars, csv_file, engine, handles, n_patterns,
                   matcher, bench_results>>

\* let start_time = Instant::now();
timer_start(e) ==
    /\ engine = e
    /\ bpc = "timer"
    /\ start_time' = Some(<<>>)
    /\ bpc' = "match"
    /\ UNCHANGED <<disk, pat, recVars, genVars, randVars, csv_file, engine, handles, n_patterns,
                   size_pos, matcher, bench_results>>

\* the match call of the engine, which can fail
match_call(e, call) ==
    /\ engine = e
    /\ bpc = "match"
    /\ \E ok \in BOOLEAN :
          /\ bpc' = IF ok THEN "push" ELSE "panic_match"
          /\ start_time' = elapsed_with([call |-> call, n |-> bench_sizes[size_pos]])
    /\ UNCHANGED <<disk, pat, recVars, genVars, randVars, csv_file, engine, handles, n_patterns,
                   size_pos, matcher, bench_results>>

\* bench_results.push(start_time.elapsed());
push_elapsed(e) ==
    /\ engine = e
    /\ bpc = "push"
    /\ bench_results' =
          Append(bench_results, [n |-> bench_sizes[size_pos], elapsed |-> start_time[1]])
    /\ start_time' = None
    /\ bpc' = "next"
    /\ UNCHANGED <<disk, pat, recVars, genVars, randVars, csv_file, engine, handles, n_patterns,
                   size_pos, matcher>>

\* ---- run_quartz
\* CString::new(target.qasm().unwrap()).unwrap()
Q_target_qasm ==
    /\ engine = "quartz"
    /\ bpc = "start"
    /\ \E ok \in BOOLEAN : bpc' = IF ok THEN "q_graph" ELSE "panic_target"
    /\ UNCHANGED <<disk, pat, recVars, genVars, randVars, csv_file, engine, handles, n_patterns,
                   size_pos, matcher, start_time, bench_results>>

\* one native call that acquires or frees a handle
Q_native(from, to, h, st) ==
    /\ engine = "quartz"
    /\ bpc = from
    /\ handles' = [handles EXCEPT ![h] = st]
    /\ bpc' = to
    /\ UNCHANGED <<disk, pat, recVars, genVars, randVars, csv_file, engine, n_patterns, size_pos,
                   matcher, start_time, bench_results>>

Q_load_graph == Q_native("q_graph", "q_ops", "graph", "live")
Q_get_ops == Q_native("q_ops", "q_iter", "ops", "live")

\* dataset.iter_qasm().map(|qasm| CString::new(qasm).unwrap()).collect();
\* n_xfers = patterns_qasm.len() as u32 (the lengths here are below 2^32)
Q_iter_qasm ==
    /\ engine = "quartz"
    /\ bpc = "q_iter"
    /\ \/ \E len \in CorpusCounts : n_patterns' = len /\ bpc' = "q_xfers"
       \/ \E p \in {"panic_iter", "panic_cstring"} : bpc' = p /\ n_patterns' = n_patterns
    /\ UNCHANGED <<disk, pat, recVars, genVars, randVars, csv_file, engine, handles, size_pos,
                   matcher, start_time, bench_results>>

Q_load_xfers == Q_native("q_xfers", "next", "xfers", "live")
Q_next == next_size("quartz", "q_free_xfers")
Q_timer_start == timer_start("quartz")
Q_pattern_match == match_call("quartz", "pattern_match")
Q_push_frees_xfers ==
    /\ engine = "quartz"
    /\ bpc = "push"
    /\ bench_results' =
          Append(bench_results, [n |-> bench_sizes[size_pos], elapsed |-> start_time[1]])
    /\ start_time' = None
    /\ handles' = [handles EXCEPT !.xfers = "freed"]
    /\ bpc' = "next"
    /\ UNCHANGED <<disk, pat, recVars, genVars, randVars, csv_file, engine, n_patterns,
                   size_pos, matcher>>

Q_push == push_elapsed("quartz")
Q_free_xfers == Q_native("q_free_xfers", "q_free_ops", "xfers", "freed")
Q_free_ops == Q_native("q_free_ops", "q_free_graph", "ops", "freed")
Q_free_graph == Q_native("q_free_graph", "returned", "graph", "freed")

\* ---- run_portmatching
\* a loading step that ends Ok or in one of the panics
P_step(from, to, panics) ==
    /\ engine = "portmatching"
    /\ bpc = from
    /\ \E r \in {to} \cup panics : bpc' = r
    /\ UNCHANGED <<disk, pat, recVars, genVars, randVars, csv_file, engine, handles, n_patterns,
                   size_pos, matcher, start_time, bench_results>>

\* target.json().unwrap()
P_target_json == P_step("start", "p_iter", {"panic_target"})

\* dataset.iter_json().map(load_tk1_json_str).collect().expect(..)
P_iter_json == P_step("p_iter", "p_patterns", {"panic_iter", "panic_json"})

\* all_hugrs.iter().map(try_from_circuit).collect().expect("invalid pattern")
P_patterns ==
    /\ engine = "portmatching"
    /\ bpc = "p_patterns"
    /\ \/ \E len \in CorpusCounts : n_patterns' = len /\ bpc' = "p_hugr"
       \/ bpc' = "panic_pattern" /\ n_patterns' = n_patterns
    /\ UNCHANGED <<disk, pat, recVars, genVars, randVars, csv_file, engine, handles, size_pos,
                   matcher, start_time, bench_results>>

\* load_tk1_json_str(target_json).unwrap()
P_target_hugr == P_step("p_hugr", "next", {"panic_hugr"})

P_next == next_size("portmatching", "returned")

P_build_inside_timer ==
    /\ engine = "portmatching"
    /\ bpc = "build"
    /\ matcher' = bench_sizes[size_pos]
    /\ start_time' = Some(<<"from_patterns">>)
    /\ bpc' = "match"
    /\ UNCHANGED <<disk, pat, recVars, genVars, randVars, csv_file, engine, handles, n_patterns,
                   size_pos, bench_results>>

\* let matcher = PatternMatcher::from_patterns(all_patterns[..n].to_vec());
P_build ==
    /\ engine = "portmatching"
    /\ bpc = "build"
    /\ matcher' = bench_sizes[size_pos]
    /\ start_time' = elapsed_with("from_patterns")
    /\ bpc' = "timer"
    /\ UNCHANGED <<disk, pat, recVars, genVars, randVars, csv_file, engine, handles, n_patterns,
                   size_pos, bench_results>>

P_timer_start == timer_start("portmatching")
P_find_matches == match_call("portmatching", "find_matches")
P_push == push_elapsed("portmatching")

\* ---- save_csv(&output_folder, bench_type, &dataset.name(), bench_sizes.clone(),
\* bench_result), called in main with the Vec the run returned. Creating the
\* folders, creating the file and every writeln! can fail; a writeln! that
\* fails is taken to have written nothing of its line.
CsvPanics == {"panic_create_dir", "panic_csv_create", "panic_csv_write"}

\* a step of save_csv that leaves the benchmark run as it is
save_csv_step(from) ==
    /\ engine \in {"quartz", "portmatching"}
    /\ bpc = from
    /\ UNCHANGED <<disk, pat, recVars, genVars, randVars, engine, handles, n_patterns,
                   size_pos, matcher, start_time, bench_results>>

\* fs::create_dir_all(parent_path).unwrap()
S_create_dir_all ==
    /\ save_csv_step("returned")
    /\ bpc' \in {"csv_create", "panic_create_dir"}
    /\ csv_file' = csv_file

\* File::create(&file_path).expect("Unable to create file")
S_create ==
    /\ save_csv_step("csv_create")
    /\ \/ bpc' = "csv_header" /\ csv_file' = Some(<<>>)
       \/ bpc' = "panic_csv_create" /\ csv_file' = csv_file

\* writeln!(f, "size,duration").expect("Unable to write to file")
S_header ==
    /\ save_csv_step("csv_header")
    /\ \/ bpc' = "csv_rows" /\ csv_file' = Some(Append(csv_file[1], CsvHeader))
       \/ bpc' = "panic_csv_write" /\ csv_file' = csv_file

csv_row_one_size_late(k) ==
    [size |-> bench_sizes[k + 1], duration |-> as_secs_f64(bench_results[k].elapsed)]

\* the k-th pair of bench_sizes.into_iter().zip(bench_results), as the line
\* writeln!(f, "{},{}", size, duration.as_secs_f64()) makes of it
csv_row(k) ==
    [size |-> bench_sizes[k], duration |-> as_secs_f64(bench_results[k].elapsed)]

\* the pairs the zip has yielded so far: the rows under the header
rows_written == Len(csv_file[1]) - 1

\* the zip ends with the shorter of the two
zip_has_next == rows_written < Len(bench_sizes) /\ rows_written < Len(bench_results)

\* for (size, duration) in ..zip(..) { writeln!(..).expect(..) }
S_row ==
    /\ save_csv_step("csv_rows")
    /\ zip_has_next
    /\ \/ /\ csv_file' = Some(Append(csv_file[1], csv_row(rows_written + 1)))
          /\ bpc' = "csv_rows"
       \/ bpc' = "panic_csv_write" /\ csv_file' = csv_file

\* the loop of save_csv is over and f is dropped
S_return ==
    /\ save_csv_step("csv_rows")
    /\ ~zip_has_next
    /\ bpc' = "saved"
    /\ csv_file' = csv_file

NextBench ==
    \/ S_create_dir_all
    \/ S_create
    \/ S_header
    \/ S_row
    \/ S_return
    \/ Q_target_qasm
    \/ Q_load_graph
    \/ Q_get_ops
    \/ Q_iter_qasm
    \/ Q_load_xfers
    \/ Q_next
    \/ Q_timer_start
    \/ Q_pattern_match
    \/ Q_push
    \/ Q_free_xfers
    \/ Q_free_ops
    \/ Q_free_graph
    \/ P_target_json
    \/ P_iter_json
    \/ P_patterns
    \/ P_target_hugr
    \/ P_next
    \/ P_build
    \/ P_timer_start
    \/ P_find_matches
    \/ P_push

SpecBench == InitBench /\ [][NextBench]_vars

\* ----------------------------------------------------------------- claims
\* the state the last call started from
PreRecord == last.pre.record
PreDisk == last.pre.disk
Other(e) == IF e = "qasm" THEN "json" ELSE "qasm"
ConverterFor(missing) == IF missing = "json" THEN "qasm_to_json" ELSE "json_to_qasm"

ExactlyOneOnDisk(r, d) == exists(r.qasm, d) # exists(r.json, d)
MissingOnDisk(r, d) == IF exists(r.qasm, d) THEN "json" ELSE "qasm"

\* what C1 says load() did when `missing` was the encoding not on disk
DerivedFromPresent(missing) ==
    LET present == Other(missing) IN
    /\ needs_conversion(PreRecord, PreDisk)
    /\ last.reads = <<PreRecord[present].path>>
    /\ record[present].contents = PreDisk[PreRecord[present].path]
    /\ record[present].is_saved
    /\ Len(last.conv) = 1
    /\ last.conv[1].fn = ConverterFor(missing)
    /\ last.conv[1].arg = PreDisk[PreRecord[present].path][1]
    /\ last.conv[1].ret.ok =>
          /\ record[missing].contents = last.conv[1].ret.val
          /\ ~record[missing].is_saved
    /\ disk = PreDisk
    /\ disk[PreRecord[missing].path] = None

\* C1 as stated: whenever QasmAndJson::load runs on a record with exactly one
\* encoding on disk, needs_conversion() was true, the encoding on disk was
\* read and marked saved, one converter call present -> missing was made and
\* its result became the other encoding's unsaved contents, nothing written.
C1_Original ==
    (last.op = "load" /\ ExactlyOneOnDisk(PreRecord, PreDisk))
        => DerivedFromPresent(MissingOnDisk(PreRecord, PreDisk))

\* C1 amended: the same, for records whose encoding missing on disk has no
\* in-memory contents either (a record that has not derived it already).
C1_LoadDerivesMissing ==
    (/\ last.op = "load"
     /\ ExactlyOneOnDisk(PreRecord, PreDisk)
     /\ PreRecord[MissingOnDisk(PreRecord, PreDisk)].contents = None)
        => DerivedFromPresent(MissingOnDisk(PreRecord, PreDisk))

C1_Witness ==
    /\ last.op = "load"
    /\ ExactlyOneOnDisk(PreRecord, PreDisk)
    /\ PreRecord[MissingOnDisk(PreRecord, PreDisk)].contents = None
    /\ last.ok
    /\ record[MissingOnDisk(PreRecord, PreDisk)].contents
           = Some(Text(MissingOnDisk(PreRecord, PreDisk), 1))
    /\ ~record[MissingOnDisk(PreRecord, PreDisk)].is_saved

\* C2: UnsavedFile::load on a file whose contents are already set returns
\* those contents, reads nothing from disk and leaves contents and is_saved
\* as they were, whether or not the path exists.
C2_LoadKeepsSetContents ==
    (last.op = "file_load" /\ PreRecord[last.file].contents # None)
        => /\ last.ok
           /\ last.val = PreRecord[last.file].contents
           /\ last.reads = <<>>
           /\ record = PreRecord

\* C3: QasmAndJson::load on a record with both encodings on disk makes no
\* converter call, reads each encoding from its own path and marks both saved.
C3_BothOnDiskNoConversion ==
    (/\ last.op = "load"
     /\ exists(PreRecord.qasm, PreDisk)
     /\ exists(PreRecord.json, PreDisk))
        => /\ last.ok
           /\ last.conv = <<>>
           /\ \A e \in Exts :
                 /\ record[e].contents = PreDisk[PreRecord[e].path]
                 /\ record[e].is_saved
           /\ {last.reads[i] : i \in 1 .. Len(last.reads)}
                 = {PreRecord[e].path : e \in Exts}
           /\ disk = PreDisk

C3_Witness ==
    /\ last.op = "load"
    /\ exists(PreRecord.qasm, PreDisk)
    /\ exists(PreRecord.json, PreDisk)
    /\ PreRecord = from_path(1)
    /\ record.qasm.is_saved /\ record.json.is_saved

\* C4: with neither encoding available (nothing on disk, nothing in memory)
\* QasmAndJson::load fails with NotFound, calls no converter and leaves both
\* files untouched (contents None, not saved); UnsavedFile::load on an empty
\* file fails with NotFound and changes nothing.
C4_NothingAvailableNotFound ==
    /\ (/\ last.op = "load"
        /\ is_empty(PreRecord.qasm, PreDisk)
        /\ is_empty(PreRecord.json, PreDisk))
           => /\ ~last.ok /\ last.err = "NotFound"
              /\ last.conv = <<>>
              /\ record = PreRecord
              /\ \A e \in Exts : record[e].contents = None /\ ~record[e].is_saved
              /\ disk = PreDisk
    /\ (last.op = "file_load" /\ is_empty(PreRecord[last.file], PreDisk))
           => /\ ~last.ok /\ last.err = "NotFound"
              /\ record = PreRecord
              /\ record[last.file].contents = None /\ ~record[last.file].is_saved
              /\ disk = PreDisk

C4_Witness ==
    /\ last.op = "load"
    /\ is_empty(PreRecord.qasm, PreDisk)
    /\ is_empty(PreRecord.json, PreDisk)
    /\ ~last.ok

\* a converter call that failed: the subprocess did not run to a successful
\* exit, or what came back is not a circuit text
ConverterFailed(call) ==
    \/ call.outcome # "ok"
    \/ call.ret.val = Some(EmptyText)

\* C5: a failed converter call makes the enclosing QasmAndJson::load return
\* an error and sets no contents from the failed conversion.
C5_ConverterFailureIsFatal ==
    (last.op = "load" /\ Len(last.conv) = 1 /\ ConverterFailed(last.conv[1]))
        => /\ ~last.ok
           /\ record.qasm.contents # Some(EmptyText)
           /\ record.json.contents # Some(EmptyText)

\* C6: valid_pattern() returns false, without aborting, when the JSON
\* contents do not parse or do not compile into a pattern.
C6_InvalidPatternIsFalse ==
    (/\ last.op = "valid_pattern"
     /\ record.json.contents # None
     /\ \/ ~load_tk1_json_str(record.json.contents[1])
        \/ Circ(record.json.contents[1]) \notin pat)
        => last.val = Some("false")

\* C7: a file marked saved holds on disk exactly its in-memory contents.
C7_SavedMeansOnDisk ==
    \A e \in Exts :
        record[e].is_saved => disk[record[e].path] = record[e].contents

\* C8, on the state after a save():
\* UnsavedFile::save writes iff contents are set and the file is not
\* marked saved, and changes nothing otherwise; a second save() right after
\* a save() writes nothing and changes nothing; a save() that succeeds on
\* contents just set leaves the path holding them, whatever it held before.
C8_SaveState ==
    last.op = "file_save" =>
        LET f == PreRecord[last.file] IN
        /\ (last.writes # <<>>) <=> (f.contents # None /\ ~f.is_saved)
        /\ last.writes # <<>> => last.writes = <<f.path>>
        /\ last.writes = <<>> => (record = PreRecord /\ disk = PreDisk /\ last.ok)
        /\ \A w \in WriteOutcomes :
              LET again == save(record[last.file], disk, w) IN
              /\ again.writes = <<>>
              /\ again.file = record[last.file]
              /\ again.disk = disk
              /\ again.ok
        /\ (last.ok /\ ~f.is_saved /\ f.contents # None)
              => disk[f.path] = f.contents

\* C8, on a set_contents(t) step followed by a save() step of the same file
C8_SetThenSave ==
    (/\ last.op = "set_contents"
     /\ last'.op = "file_save"
     /\ last'.file = last.file
     /\ last'.ok)
        => /\ last'.writes = <<record[last.file].path>>
           /\ disk'[record[last.file].path] = last.val

\* C8: save() writes iff contents are set and the file is not marked saved,
\* is idempotent, and after set_contents(t) a successful save() leaves the
\* path holding t.
C8_SaveIdempotent == []C8_SaveState /\ [][C8_SetThenSave]_vars

C8_Witness ==
    /\ last.op = "file_save"
    /\ last.ok
    /\ last.writes # <<>>
    /\ PreDisk[PreRecord[last.file].path] # None
    /\ PreDisk[PreRecord[last.file].path] # PreRecord[last.file].contents
    /\ disk[record[last.file].path] = record[last.file].contents

\* the blobs as iter_qasm / iter_json decode them
Decoded(w) == from_read(bin[w][1])

\* the k-th record of `files` is retained
Kept(k) == valid_pattern(files[k], pat) = "true"

\* the record that entry n of the blobs comes from, going through `files`
\* in order
KeptIndex(n) ==
    CHOOSE k \in 1 .. Len(files) :
        Kept(k) /\ Cardinality({m \in 1 .. k : Kept(m)}) = n

\* C9: once generate() has returned, qasm.bin and json.bin decode to
\* sequences of the same length, entry n of each being the qasm and the json
\* contents of the same record (the n-th retained one), and iter_qasm /
\* iter_json yield those sequences in the order written.
C9_BlobsAligned ==
    pc = "done" =>
        /\ \A w \in Blobs : bin[w] # None /\ decodable(bin[w][1])
        /\ Len(Decoded("qasm")) = Len(Decoded("json"))
        /\ Len(Decoded("qasm")) = Cardinality({k \in 1 .. Len(files) : Kept(k)})
        /\ \A n \in 1 .. Len(Decoded("qasm")) :
              /\ Decoded("qasm")[n] = files[KeptIndex(n)].qasm.contents[1]
              /\ Decoded("json")[n] = files[KeptIndex(n)].json.contents[1]
              /\ Circ(Decoded("json")[n]) = files[KeptIndex(n)].json.path[1]
              /\ Circ(Decoded("qasm")[n]) # 0
                    => Circ(Decoded("qasm")[n]) = Circ(Decoded("json")[n])
        /\ iter_res.at = "done" =>
              /\ iter_res.ok
              /\ iter_res.items = Decoded(iter_res.which)
              /\ iter_res.items = IF iter_res.which = "qasm" THEN qasm_vec
                                                            ELSE json_vec

C9_Witness ==
    /\ pc = "done"
    /\ Len(Decoded("qasm")) = 2
    /\ Len(Decoded("json")) = 2
    /\ Decoded("json")[1] = Text("json", 2)
    /\ iter_res.at = "done"
    /\ iter_res.which = "json"
    /\ Len(iter_res.items) = 2

\* the records of the directory, and those among them that are patterns
RecordsInDir == file_names(disk, bin)
ValidInDir == {b \in RecordsInDir : b \in pat}

\* C10: generate() returns the number of records of the directory that pass
\* valid_pattern(), which is the length of each blob: k records of which m
\* are invalid as patterns give k - m.
C10_ReturnsRetainedCount ==
    pc = "done" =>
        /\ ret = Cardinality({k \in 1 .. Len(files) : Kept(k)})
        /\ ret = Cardinality(ValidInDir)
        /\ ret = Cardinality(RecordsInDir) - Cardinality(RecordsInDir \ ValidInDir)
        /\ ret = Len(Decoded("qasm"))
        /\ ret = Len(Decoded("json"))

C10_Witness ==
    /\ pc = "done"
    /\ Cardinality(RecordsInDir) = 2
    /\ Cardinality(RecordsInDir \ ValidInDir) = 1
    /\ ret = 1

\* the basenames that have a circuit file in the folder
BasenamesOnDisk == {b \in Bases : \E e \in Exts : disk[<<b, e>>] # None}

\* the basenames generate built records for
BasenamesOfFiles == {files[k].qasm.path[1] : k \in 1 .. Len(files)}

\* C11: a second generate(true) on the folder the first one left (its saved
\* per-file artifacts and the two blobs being the only additions) builds the
\* same records, none of them from qasm.bin or json.bin, fails on none of
\* them, and returns the count the first call returned.
C11_SameCountTwice ==
    prev_ret # None =>
        /\ pc # "start" => BasenamesOfFiles = BasenamesOnDisk
        /\ pc \notin {"panic_load", "panic_save", "panic_filter"}
        /\ pc = "done" => ret = prev_ret[1]

C11_Witness ==
    /\ prev_ret = Some(1)
    /\ pc = "done"
    /\ ret = 1
    /\ Len(files) = 2
    /\ bin.qasm # None /\ bin.json # None

\* C17: iter_qasm / iter_json abort when their blob is missing, and no call
\* of them creates or changes qasm.bin, json.bin or a circuit file.
C17_MissingBlobAborts ==
    (iter_res.which # "" /\ bin[iter_res.which] = None) => ~iter_res.ok

C17_IterWritesNothing ==
    (iter_res' # iter_res /\ iter_res'.which # "") => (bin' = bin /\ disk' = disk)

C17_IterNeverRegenerates == []C17_MissingBlobAborts /\ [][C17_IterWritesNothing]_vars

C17_Witness ==
    /\ iter_res.which = "json"
    /\ bin.json = None
    /\ ~iter_res.ok
    /\ BasenamesOnDisk # {}

\* C18: generate(false) creates and changes no circuit file (what it derives
\* stays in memory); after generate(true) has returned every record has both
\* its .qasm and its .json file on disk.
C18_SavedRecordsOnDisk ==
    (pc = "done" /\ save_files) =>
        \A k \in 1 .. Len(files) :
            \A e \in Exts : /\ disk[files[k][e].path] # None
                            /\ disk[files[k][e].path] = files[k][e].contents

C18_NoSaveNoWrite == ~save_files => disk' = disk

C18_SaveFilesOnly == []C18_SavedRecordsOnDisk /\ [][C18_NoSaveNoWrite]_vars

C18_Witness ==
    /\ pc = "done"
    /\ ~save_files
    /\ bin.qasm # None /\ bin.json # None
    /\ \E k \in 1 .. Len(files) :
          /\ files[k].json.contents = Some(Text("json", files[k].json.path[1]))
          /\ disk[files[k].json.path] = None

\* C19: generate builds one record per basename that has a .qasm or a .json
\* file: one for a basename that has both, none for qasm.bin, json.bin or a
\* file of another extension; no basename has two entries in a blob.
C19_OneRecordPerBasename ==
    pc # "start" =>
        /\ BasenamesOfFiles = BasenamesOnDisk
        /\ Len(files) = Cardinality(BasenamesOnDisk)
        /\ \A k \in 1 .. Len(files) :
              /\ files[k].qasm.path = <<files[k].qasm.path[1], "qasm">>
              /\ files[k].json.path = <<files[k].qasm.path[1], "json">>
        /\ pc = "done" =>
              /\ Len(json_vec) <= Cardinality(BasenamesOnDisk)
              /\ \A m, n \in 1 .. Len(json_vec) :
                    m # n => Circ(json_vec[m]) # Circ(json_vec[n])

C19_Witness ==
    /\ pc = "done"
    /\ Len(files) = 1
    /\ disk[<<2, "qasm">>] # None
    /\ disk[<<2, "json">>] # None
    /\ bin.qasm # None /\ bin.json # None
    /\ prev_ret # None
    /\ Len(json_vec) = 1

\* the qubits and the cx edges a written text declares
QubitsOfText(t) == QubitIds(t[1][2])
EdgesOfText(t) == {{t[k][2], t[k][3]} : k \in {i \in 2 .. Len(t) : t[i][1] = "cx"}}

\* the qubits reachable from those of S along the edges of E
RECURSIVE Component(_, _)
Component(S, E) ==
    LET N == S \cup UNION {e \in E : e \cap S # {}} IN
    IF N = S THEN S ELSE Component(N, E)

\* no two qubits of the text lie in different components
ConnectedText(t) ==
    \A a \in QubitsOfText(t) : QubitsOfText(t) \subseteq Component({a}, EdgesOfText(t))

\* C12: when unpack has returned, the files it wrote are n_circuits in
\* number, no two hold the same text, and in every one the graph with the
\* qubits as nodes and the cx gates as edges is connected.
C12_UnpackWritesDistinctConnected ==
    upc = "returned" =>
        /\ BagCardinality(folder) = n_circuits
        /\ \A t \in BagToSet(folder) :
              /\ CopiesIn(t, folder) = 1
              /\ t # TruncatedFile
              /\ t[1] = <<"qreg", n_qubits>>
              /\ Len(t) = n_gates + 1
              /\ ConnectedText(t)

C12_Witness ==
    /\ upc = "returned"
    /\ n_qubits = 3
    /\ n_circuits = 2
    /\ n_rejected > 0
    /\ n_iter > 1
    /\ BagCardinality(folder) = 2

\* C13: while unpack is still looping, the circuits drawn so far (accepted,
\* duplicate or rejected for connectivity) are at most 10 * n_circuits:
\* one more and it has aborted.
C13_EveryDrawCounts ==
    upc = "loop" => n_iter + n_rejected <= 10 * n_circuits

\* C14: with n_qubits > n_gates + 1 the first turn of unpack's loop fails the
\* assertion, and nothing has been drawn or written by then; with
\* n_qubits <= n_gates + 1 the assertion never fails.
C14_AssertState ==
    /\ n_qubits > n_gates + 1 =>
          /\ upc \in {"start", "panic_dir", "loop", "panic_assert"}
          /\ folder = EmptyBag
          /\ seen_circs = {}
          /\ n_rejected = 0
          /\ n_iter = 0
          /\ upc = "loop" => ENABLED U_assert_fails
    /\ n_qubits <= n_gates + 1 => upc # "panic_assert"

C14_AssertStep ==
    (upc = "loop" /\ n_qubits > n_gates + 1) => (upc' = "panic_assert" \/ upc' = upc)

C14_AssertBeforeAnyWrite == []C14_AssertState /\ [][C14_AssertStep]_vars

C14_Witness ==
    /\ upc = "panic_assert"
    /\ n_qubits = 3
    /\ n_gates = 1
    /\ n_circuits = 2
    /\ folder = EmptyBag

\* the sizes of the samples pushed so far, in order
MeasuredSizes == [k \in 1 .. Len(bench_results) |-> bench_results[k].n]

\* the requested sizes that do not exceed the corpus count, in order
FittingSizes == SelectSeq(bench_sizes, LAMBDA n : n <= n_patterns)

LoopOver == {"returned", "q_free_xfers", "q_free_ops", "q_free_graph"}

\* C15: for either engine the samples are taken for the requested sizes
\* n <= corpus count, in the requested order, one each and none for a larger
\* size; when the loop is over none is missing. For a corpus of 5000
\* patterns these are the 25 sizes 200, 400, ..., 5000.
C15_OneSamplePerFittingSize ==
    /\ Len(MeasuredSizes) <= Len(FittingSizes)
    /\ MeasuredSizes = SubSeq(FittingSizes, 1, Len(MeasuredSizes))
    /\ bpc \in LoopOver => MeasuredSizes = FittingSizes
    /\ (bpc \in LoopOver /\ n_patterns = 5000) =>
          MeasuredSizes = [k \in 1 .. 25 |-> 200 * k]

C15_Witness ==
    /\ bpc = "returned"
    /\ engine = "quartz"
    /\ n_patterns = 5000
    /\ Len(bench_results) = 25
    /\ bench_results[25].n = 5000

\* C16: when run_quartz has ended, by returning or by a failure, none of the
\* handles it acquired is still unreleased.
C16_HandlesReleased ==
    (engine = "quartz" /\ bpc \in {"returned"} \cup BenchPanics) =>
        \A h \in DOMAIN handles : handles[h] # "live"

\* the match call of the engine
MatchCallOf(e) == IF e = "quartz" THEN "pattern_match" ELSE "find_matches"

\* C20: the time of every sample spans the match call for that sample's size
\* and no other driver step; the timer runs only from just before the match
\* call to the push that follows it.
C20_SamplesSpanMatch ==
    /\ \A k \in 1 .. Len(bench_results) :
          bench_results[k].elapsed =
              <<[call |-> MatchCallOf(engine), n |-> bench_results[k].n]>>
    /\ start_time # None => bpc \in {"match", "push", "panic_match"}
    /\ bpc = "match" => start_time = Some(<<>>)

\* the timer is started when the patterns for the size are loaded (the
\* matcher built for this size, the xfers loaded), and the step after the
\* match call is the push
C20_TimerSteps ==
    /\ (start_time = None /\ start_time' # None) =>
          /\ bpc' = "match"
          /\ engine = "portmatching" => matcher = bench_sizes[size_pos]
          /\ engine = "quartz" =>
                handles.xfers = "live" /\ bench_sizes[size_pos] <= n_patterns
    /\ (bpc = "push" /\ bpc' # bpc) => Len(bench_results') = Len(bench_results) + 1

C20_TimerSpansMatchOnly == []C20_SamplesSpanMatch /\ [][C20_TimerSteps]_vars

C20_Witness ==
    /\ engine = "portmatching"
    /\ bpc = "push"
    /\ Len(bench_results) = 2
    /\ matcher = 600
    /\ start_time = Some(<<[call |-> "find_matches", n |-> 600]>>)

\* a load() called on the record right after a load() that returned Ok: no
\* call in between, so no save and no change of the disk
C21_SecondLoadStep ==
    (/\ last.op = "load"
     /\ last.ok
     /\ last'.op = "load"
     /\ last'.pre = [record |-> record, disk |-> disk])
        => /\ last'.ok
           /\ last'.conv = <<>>
           /\ record'.qasm.contents = record.qasm.contents
           /\ record'.json.contents = record.json.contents

\* C21: a load() right after a successful load() on the same record returns
\* Ok too, calls no converter and leaves the contents of both encodings as
\* they were, also when the first load derived an encoding that is not on
\* disk.
C21_SecondLoadRepeats == [][C21_SecondLoadStep]_vars

\* the aborts of generate that the loads, the saves and the validation cause
AbortsBeforeBlobs == {"panic_load", "panic_save", "panic_filter"}

\* every record is loaded and validated: generate is past its filter
LoadedAndValidated ==
    /\ pc \in {"create_qasm_bin", "create_json_bin", "write_qasm_bin", "write_json_bin"}
    /\ idx > Len(files)
    /\ \A k \in 1 .. Len(files) :
          /\ files[k].qasm.contents # None
          /\ files[k].json.contents # None
          /\ valid_pattern(files[k], pat) # "panic"

C22_AbortKeepsBlobs == pc \in AbortsBeforeBlobs => bin = bin0

C22_BlobStep == bin' # bin => LoadedAndValidated

\* C22: when generate aborts on a load, a save or the validation of a
\* record, qasm.bin and json.bin are as they were when it was called; a step
\* of generate creates or writes a blob only when every record is loaded and
\* validated.
C22_BlobsAfterAllRecords == []C22_AbortKeepsBlobs /\ [][C22_BlobStep]_vars

C22_Witness ==
    /\ pc = "panic_filter"
    /\ bin = StaleBlobs
    /\ Len(files) = 2
    /\ idx = 3

\* C23: at every point of unpack, for every n_circuits (0 included), the
\* files it has written to the folder are at most n_circuits.
C23_AtMostNCircuitsWritten ==
    upc # "off" => BagCardinality(folder) <= n_circuits

AllLive == \A h \in DOMAIN handles : handles[h] = "live"

\* the handle a free_* call of run_quartz releases, by where the call is
FreedAt == [q_free_xfers |-> "xfers", q_free_ops |-> "ops", q_free_graph |-> "graph"]

\* around every pattern_match call the three handles are live, and get_ops
\* and load_xfers run with the graph live
C24_LiveWhenUsed ==
    engine = "quartz" =>
        /\ bpc \in {"timer", "match", "push"} => AllLive
        /\ bpc \in {"q_ops", "q_iter", "q_xfers"} => handles.graph = "live"
        /\ \A k \in 1 .. Len(bench_results) : handles.graph # "null"

\* pattern_match is called with the three handles live; a free_* call
\* releases a live handle; a freed handle is never used or freed again
C24_HandleSteps ==
    engine = "quartz" =>
        /\ (bpc = "match" /\ bpc' # bpc) => AllLive /\ handles' = handles
        /\ \A h \in DOMAIN handles : handles[h] = "freed" => handles'[h] = "freed"
        /\ \A at \in DOMAIN FreedAt :
              (bpc = at /\ bpc' # bpc) =>
                  /\ handles[FreedAt[at]] = "live"
                  /\ handles' = [handles EXCEPT ![FreedAt[at]] = "freed"]
        /\ handles' # handles =>
              bpc \in {"q_graph", "q_ops", "q_xfers"} \cup DOMAIN FreedAt

\* C24: in run_quartz every pattern_match call comes after load_graph,
\* get_ops and load_xfers have returned and before any free_* call, and
\* free_xfers, free_ops and free_graph are each called at most once.
C24_HandlesLiveAndFreedOnce == []C24_LiveWhenUsed /\ [][C24_HandleSteps]_vars

C24_Witness ==
    /\ engine = "quartz"
    /\ bpc = "returned"
    /\ \A h \in DOMAIN handles : handles[h] = "freed"
    /\ Len(bench_results) = 3

\* the requested sizes ascend
Ascending(sizes) == \A i \in 1 .. Len(sizes) - 1 : sizes[i] < sizes[i + 1]

RequestedAscending == Ascending(bench_sizes)

\* the rows save_csv has written under the header of the file it created
CsvRows ==
    IF bpc \in {"csv_header", "csv_rows", "saved", "panic_csv_write"}
    THEN [k \in 1 .. Len(csv_file[1]) - 1 |-> csv_file[1][k + 1]]
    ELSE <<>>

\* C25: the requested sizes ascending, the k-th row save_csv writes holds the
\* k-th requested size n <= corpus count together with the time of the sample
\* measured at that size; there is no row for a size without a sample, and a
\* save_csv that returns has written a row for every sample.
C25_RowsPairSizeWithItsTime ==
    RequestedAscending =>
        /\ Len(CsvRows) <= Len(bench_results)
        /\ LET fitting == FittingSizes
               rows == CsvRows
           IN  \A k \in 1 .. Len(rows) :
                  /\ rows[k].size = fitting[k]
                  /\ rows[k].size = bench_results[k].n
                  /\ rows[k].duration = as_secs_f64(bench_results[k].elapsed)
        /\ bpc = "saved" =>
              /\ csv_file[1][1] = CsvHeader
              /\ Len(CsvRows) = Len(bench_results)

C25_Witness ==
    /\ RequestedAscending
    /\ engine = "portmatching"
    /\ bpc = "saved"
    /\ n_patterns = 699
    /\ Len(CsvRows) = 3
    /\ CsvRows[3].size = 600

====
